---------------------------- MODULE Spec2Model ----------------------------
(***************************************************************************)
(* The mind-map diagram component (src/MindMapGraph.tsx, lines 230-481):   *)
(* d3.hierarchy over the supplied tree, the d3.tree layout, the keyed data *)
(* join with its enter/update/exit transitions, the click handler that     *)
(* collapses and expands a node, and the balanced text splitter.           *)
(*                                                                         *)
(* Lengths are integers in units of 1/SubPx pixel, so that the halves and  *)
(* quarters the tidy-tree layout produces are exact.                       *)
(***************************************************************************)
EXTENDS Integers, Sequences, FiniteSets, TLC

(* ------------------------------ bounds -------------------------------- *)

\* The largest number of objects in a supplied tree, when clicks may arrive
\* while transitions are in flight.
MaxNodes == 3

\* The largest number of objects in a supplied tree, when every click waits
\* for the transitions to end.
MaxLargeNodes == 6

\* The longest label and the largest budget the text splitter is tried on.
MaxLabelLen == 24

MaxBudget == 11

\* The largest number of objects in a supplied object graph that need not be
\* a tree, and the longest children array in one.
MaxObjects == 2

MaxArray == 2

\* The labels of a supplied tree are drawn in MaxSeed + 1 ways.
MaxSeed == 0

\* How many layout passes may have their transitions in flight at once.
MaxInFlight == 2

\* How many hierarchy nodes the unrolled d3.hierarchy loop may create.
MaxBuilt == 6

\* How many drags to one side a gesture may take the translation away from
\* the initial one.
MaxPan == 1

\* How many submissions an AiSummary may accept while it is mounted.
MaxTurns == 2

\* How many calls of generateChatResponse may outlive the AiSummary that made
\* them.
MaxOrphans == 1

\* The largest number of items in the knowledge list generateChatResponse
\* searches.
MaxItems == 6

(* ------------------------- program constants -------------------------- *)

SubPx == 8 * 8

Px(n) == n * SubPx

height == 600

VerticalSpacing == 90

\* The second number of nodeSize([90, 220]), which update overrides.
NodeSizeDy == 220

HorizontalSpacing == 240

WrapBudget == 10

MinWidth == 80

MinHeight == 40

paddingX == 30

paddingY == 20

FontSize == 14

\* lineHeight = 1.2 em, in tenths of an em.
lineHeightTenths == 12

DefaultRectHeight == 40

\* Box sizes and opacities are integers in millionths (of a pixel, of full
\* opacity), so that the 1e-6 of the exit transition is the integer Tiny.
Micro == 1000 * 1000

Upx(n) == n * Micro

Tiny == 1

Opaque == Micro

Max(a, b) == IF a >= b THEN a ELSE b

Min(a, b) == IF a <= b THEN a ELSE b

\* Math.ceil(a / b) for a >= 0, b >= 1.
Ceil(a, b) == (a + b - 1) \div b

Last(s) == s[Len(s)]

\* F(e), with e evaluated once however often F uses its argument.
Bind(e, F(_)) == CHOOSE r \in { F(w) : w \in { e } } : TRUE

(* ---------------------------- splitString ----------------------------- *)

\* A substring that takes `to` as the position of the character after the
\* last one and stops one character early.
SubstringShort(str, from, to) ==
  SubSeq(str, Min(from, Len(str)) + 1, Min(to, Len(str)) - 1)

\* str.substring(from, to): positions from..to-1 (0-based), both clamped to
\* the length of the string.
Substring(str, from, to) ==
  LET f == Min(from, Len(str))
      t == Min(to, Len(str))
  IN  SubSeq(str, f + 1, t)

RECURSIVE SplitLoopInclusive(_, _, _, _)
\* The loop with the test i <= len: one more turn when the length is a
\* multiple of charsPerLine.
SplitLoopInclusive(str, charsPerLine, i, result) ==
  IF i <= Len(str)
  THEN SplitLoopInclusive(str, charsPerLine, i + charsPerLine,
                          Append(result, SubSeq(str, Min(i, Len(str)) + 1,
                                                Min(i + charsPerLine, Len(str)))))
  ELSE result

RECURSIVE SplitLoop(_, _, _, _)
\* The for loop of splitString: i advances by charsPerLine while i < len.
SplitLoop(str, charsPerLine, i, result) ==
  IF i < Len(str)
  THEN SplitLoop(str, charsPerLine, i + charsPerLine,
                 Append(result, Substring(str, i, i + charsPerLine)))
  ELSE result

\* splitString without the early return for a string within the budget: no
\* line is needed for no character and the loop does not run.
splitStringAlwaysLoops(str, maxPerLine) ==
  IF Len(str) = 0
  THEN << >>
  ELSE LET numLines     == Ceil(Len(str), maxPerLine)
           charsPerLine == Ceil(Len(str), numLines)
       IN  SplitLoop(str, charsPerLine, 0, << >>)

\* splitString with the number of lines rounded down.
splitStringFloor(str, maxPerLine) ==
  IF Len(str) <= maxPerLine
  THEN << str >>
  ELSE LET numLines     == Len(str) \div maxPerLine
           charsPerLine == Ceil(Len(str), numLines)
       IN  SplitLoop(str, charsPerLine, 0, << >>)

splitString(str, maxPerLine) ==
  IF Len(str) <= maxPerLine
  THEN << str >>
  ELSE LET numLines     == Ceil(Len(str), maxPerLine)
           charsPerLine == Ceil(Len(str), numLines)
       IN  SplitLoop(str, charsPerLine, 0, << >>)

(* ------------------- d3.hierarchy node traversals --------------------- *)

\* A hierarchy node is a number 1, 2, ...; Null stands for null/undefined.
\* ch[v] is v.children as a sequence; d3.hierarchy never stores an empty
\* children array, so << >> stands for a falsy v.children (undefined from
\* d3.hierarchy, null after a collapse).
Null == 0

\* The root of the hierarchy is the first node created.
root == 1

RECURSIVE eachBefore(_, _)
\* node.eachBefore: pre-order, children in array order.
eachBefore(ch, v) ==
  LET RECURSIVE Over(_)
      Over(k) == IF k > Len(ch[v]) THEN << >>
                 ELSE eachBefore(ch, ch[v][k]) \o Over(k + 1)
  IN  << v >> \o Over(1)

RECURSIVE eachAfter(_, _)
\* node.eachAfter: post-order, children in array order.
eachAfter(ch, v) ==
  LET RECURSIVE Over(_)
      Over(k) == IF k > Len(ch[v]) THEN << >>
                 ELSE eachAfter(ch, ch[v][k]) \o Over(k + 1)
  IN  Over(1) \o << v >>

RECURSIVE BreadthFirst(_, _)
\* The node iterator: level by level, each level in order.
BreadthFirst(ch, level) ==
  IF Len(level) = 0 THEN << >>
  ELSE LET RECURSIVE Next_(_)
           Next_(k) == IF k > Len(level) THEN << >>
                       ELSE ch[level[k]] \o Next_(k + 1)
       IN  Bind(Next_(1), LAMBDA next : level \o BreadthFirst(ch, next))

\* node.descendants(): the nodes reachable through live children.
descendants(ch, top) == BreadthFirst(ch, << top >>)

Range(s) == { s[k] : k \in 1..Len(s) }

(* ------------------------------ d3.tree ------------------------------- *)

\* T = [ch, par]: live children and parent of every hierarchy node.
\* W = [z, m, c, s, t, a, A]: the fields of the layout's TreeNode wrappers
\* (prelim, mod, change, shift, thread, ancestor, default ancestor), each a
\* function over 0..n, where 0 is the wrapper treeRoot puts above the root.

Slot == Px(VerticalSpacing)

Siblings(T, v) == IF T.par[v] = Null THEN << v >> ELSE T.ch[T.par[v]]

\* v.i, the 0-based index of v among its siblings.
Index(T, v) ==
  LET sib == Siblings(T, v)
  IN  (CHOOSE k \in 1..Len(sib) : sib[k] = v) - 1

\* A separation that keeps only cousins apart.
separationOfCousins(T, a, b) == IF T.par[a] = T.par[b] THEN 0 ELSE 2 * Slot

\* defaultSeparation, in layout units (nodeSize scales by dx = 90).
separation(T, a, b) == IF T.par[a] = T.par[b] THEN Slot ELSE 2 * Slot

nextLeft(T, W, v) == IF Len(T.ch[v]) > 0 THEN T.ch[v][1] ELSE W.t[v]

nextRight(T, W, v) == IF Len(T.ch[v]) > 0 THEN Last(T.ch[v]) ELSE W.t[v]

moveSubtree(T, W, wm, wp, shift) ==
  LET change == shift \div (Index(T, wp) - Index(T, wm))
      W1 == [W  EXCEPT !.c[wp] = @ - change, !.s[wp] = @ + shift]
      W2 == [W1 EXCEPT !.c[wm] = @ + change]
  IN  [W2 EXCEPT !.z[wp] = @ + shift, !.m[wp] = @ + shift]

RECURSIVE ShiftLoop(_, _, _, _, _, _)
\* The while (--i >= 0) loop of executeShifts; i is 1-based here.
ShiftLoop(T, W, v, i, shift, change) ==
  IF i < 1 THEN W
  ELSE LET w == T.ch[v][i]
       IN  Bind([W EXCEPT !.z[w] = @ + shift, !.m[w] = @ + shift],
                LAMBDA W1 :
                  ShiftLoop(T, W1, v, i - 1,
                            shift + W1.s[w] + change + W1.c[w],
                            change + W1.c[w]))

executeShifts(T, W, v) == ShiftLoop(T, W, v, Len(T.ch[v]), 0, 0)

nextAncestor(T, W, vim, v, ancestor) ==
  IF T.par[W.a[vim]] = T.par[v] THEN W.a[vim] ELSE ancestor

\* One pass through the body of the while loop of apportion, with vim and
\* vip already advanced.
ApportionBody(T, v, ancestor, L, vim, vip) ==
  LET vom   == nextLeft(T, L.W, L.vom)
      vop   == nextRight(T, L.W, L.vop)
      Wa    == [L.W EXCEPT !.a[vop] = v]
      shift == L.W.z[vim] + L.sim - L.W.z[vip] - L.sip
                 + separation(T, vim, vip)
      sip1  == IF shift > 0 THEN L.sip + shift ELSE L.sip
      sop1  == IF shift > 0 THEN L.sop + shift ELSE L.sop
  IN  Bind(IF shift > 0
           THEN moveSubtree(T, Wa, nextAncestor(T, Wa, vim, v, ancestor),
                            v, shift)
           ELSE Wa,
           LAMBDA Wb :
             [W |-> Wb, vip |-> vip, vop |-> vop, vim |-> vim, vom |-> vom,
              sim |-> L.sim + Wb.m[vim], sip |-> sip1 + Wb.m[vip],
              som |-> L.som + Wb.m[vom], sop |-> sop1 + Wb.m[vop]])

RECURSIVE ApportionLoop(_, _, _, _)
\* The while loop of apportion. L carries the loop variables.
ApportionLoop(T, v, ancestor, L) ==
  LET vim == nextRight(T, L.W, L.vim)
      vip == nextLeft(T, L.W, L.vip)
  IN  IF vim = Null \/ vip = Null
      THEN [L EXCEPT !.vim = vim, !.vip = vip]
      ELSE Bind(ApportionBody(T, v, ancestor, L, vim, vip),
                LAMBDA L1 : ApportionLoop(T, v, ancestor, L1))

\* The two ifs after the loop: the threads.
ApportionThreads(T, v, ancestor, L) ==
  LET W2 == IF L.vim # Null /\ nextRight(T, L.W, L.vop) = Null
            THEN [L.W EXCEPT !.t[L.vop] = L.vim,
                             !.m[L.vop] = @ + L.sim - L.sop]
            ELSE L.W
      left == L.vip # Null /\ nextLeft(T, W2, L.vom) = Null
  IN  [W |-> IF left
             THEN [W2 EXCEPT !.t[L.vom] = L.vip,
                             !.m[L.vom] = @ + L.sip - L.som]
             ELSE W2,
       ancestor |-> IF left THEN v ELSE ancestor]

\* Returns the wrappers and the (possibly new) default ancestor.
apportion(T, W, v, w, ancestor) ==
  IF w = Null THEN [W |-> W, ancestor |-> ancestor]
  ELSE LET vom0 == Siblings(T, v)[1]
       IN  Bind(ApportionLoop(T, v, ancestor,
                  [W |-> W, vip |-> v, vop |-> v, vim |-> w, vom |-> vom0,
                   sip |-> W.m[v], sop |-> W.m[v],
                   sim |-> W.m[w], som |-> W.m[vom0]]),
                LAMBDA L : ApportionThreads(T, v, ancestor, L))

\* firstWalk that places v over its first child instead of the midpoint.
FirstWalkPlaceOverFirst(T, W, v, w) ==
  LET children == T.ch[v]
  IN  IF Len(children) > 0
      THEN Bind(executeShifts(T, W, v),
             LAMBDA E :
               LET midpoint == E.z[children[1]]
               IN  IF w # Null
                   THEN [E EXCEPT
                           !.z[v] = E.z[w] + separation(T, v, w),
                           !.m[v] = E.z[w] + separation(T, v, w) - midpoint]
                   ELSE [E EXCEPT !.z[v] = midpoint])
      ELSE IF w # Null
           THEN [W EXCEPT !.z[v] = W.z[w] + separation(T, v, w)]
           ELSE W

\* The first part of firstWalk: the prelim and the mod of v, given its
\* left sibling w.
FirstWalkPlace(T, W, v, w) ==
  LET children == T.ch[v]
  IN  IF Len(children) > 0
      THEN Bind(executeShifts(T, W, v),
             LAMBDA E :
               LET midpoint == (E.z[children[1]] + E.z[Last(children)]) \div 2
               IN  IF w # Null
                   THEN [E EXCEPT
                           !.z[v] = E.z[w] + separation(T, v, w),
                           !.m[v] = E.z[w] + separation(T, v, w) - midpoint]
                   ELSE [E EXCEPT !.z[v] = midpoint])
      ELSE IF w # Null
           THEN [W EXCEPT !.z[v] = W.z[w] + separation(T, v, w)]
           ELSE W

firstWalk(T, W, v) ==
  LET siblings == Siblings(T, v)
      i == Index(T, v)
      w == IF i # 0 THEN siblings[i] ELSE Null
      p == T.par[v]
  IN  Bind(FirstWalkPlace(T, W, v, w),
        LAMBDA W1 :
          Bind(apportion(T, W1, v, w,
                         IF W1.A[p] # Null THEN W1.A[p] ELSE siblings[1]),
            LAMBDA R : [R.W EXCEPT !.A[p] = R.ancestor]))

RECURSIVE WalkFirst(_, _, _, _)
WalkFirst(T, W, order, k) ==
  IF k > Len(order) THEN W
  ELSE Bind(firstWalk(T, W, order[k]),
            LAMBDA W1 : WalkFirst(T, W1, order, k + 1))

\* secondWalk without the parent's mod in x.
secondWalkNoMod(T, R, v) ==
  LET p == T.par[v]
  IN  [W |-> [R.W EXCEPT !.m[v] = @ + R.W.m[p]],
       x |-> [R.x EXCEPT ![v] = R.W.z[v]]]

\* secondWalk: v._.x = v.z + v.parent.m; v.m += v.parent.m.
secondWalk(T, R, v) ==
  LET p == T.par[v]
  IN  [W |-> [R.W EXCEPT !.m[v] = @ + R.W.m[p]],
       x |-> [R.x EXCEPT ![v] = R.W.z[v] + R.W.m[p]]]

RECURSIVE WalkSecond(_, _, _, _)
WalkSecond(T, R, order, k) ==
  IF k > Len(order) THEN R.x
  ELSE Bind(secondWalk(T, R, order[k]),
            LAMBDA R1 : WalkSecond(T, R1, order, k + 1))

\* tree(root) with nodeSize: the x of every node reachable through live
\* children (0 for the others, which the caller leaves untouched).
TreeWalks(T, n) ==
  LET zero == [v \in 0..n |-> 0]
      W0 == [z |-> zero, m |-> zero, c |-> zero, s |-> zero,
             t |-> [v \in 0..n |-> Null], a |-> [v \in 0..n |-> v],
             A |-> [v \in 0..n |-> Null]]
  IN  Bind(WalkFirst(T, W0, eachAfter(T.ch, root), 1),
        LAMBDA W1 :
          Bind([W |-> [W1 EXCEPT !.m[0] = 0 - W1.z[root]],
                x |-> [v \in 1..n |-> 0]],
            LAMBDA R : WalkSecond(T, R, eachBefore(T.ch, root), 1)))

tree(ch, par) ==
  Bind([ch |-> ch, par |-> par], LAMBDA T : TreeWalks(T, Len(ch)))

(* --------------------------- supplied trees --------------------------- *)

\* A supplied tree is [kids, name]: object o (1 is the root) has the children
\* kids[o], in order, and the label name[o].  A shape is the sequence of the
\* objects' depths in pre-order; every ordered tree has exactly one.

RECURSIVE ShapesOfLen(_)
ShapesOfLen(n) ==
  IF n = 1 THEN { << 0 >> }
  ELSE UNION { { Append(s, d) : d \in 1..(Last(s) + 1) }
               : s \in ShapesOfLen(n - 1) }

Shapes(max) == UNION { ShapesOfLen(n) : n \in 1..max }

ShapeParent(shape, j) ==
  CHOOSE p \in 1..(j - 1) :
    /\ shape[p] = shape[j] - 1
    /\ \A q \in (p + 1)..(j - 1) : shape[q] >= shape[j]

RECURSIVE Ascending(_)
\* The members of a finite set of numbers, in increasing order.
Ascending(S) ==
  IF S = {} THEN << >>
  ELSE LET lo == CHOOSE a \in S : \A b \in S : a <= b
       IN  << lo >> \o Ascending(S \ {lo})

ShapeKids(shape) ==
  [o \in 1..Len(shape) |->
     Ascending({ j \in 2..Len(shape) : ShapeParent(shape, j) = o })]

\* A label of the given length; its characters are told apart by position.
Label(len) == [k \in 1..len |-> k]

\* Label lengths tried in a supplied tree: short, empty, just over the wrap
\* budget, over twice the budget, a single character.
LabelLens == << 3, 0, 11, 22, 1 >>

TreeOf(shape, seed) ==
  [kids |-> ShapeKids(shape),
   name |-> [o \in 1..Len(shape) |->
               Label(LabelLens[((o + seed) % Len(LabelLens)) + 1])]]

TreesUpTo(max) ==
  { TreeOf(shape, seed) : shape \in Shapes(max), seed \in 0..MaxSeed }

Trees == TreesUpTo(MaxNodes)

LargeTrees == TreesUpTo(MaxLargeNodes)

NoData == [kids |-> << >>, name |-> << >>]

(* ---------------------------- d3.hierarchy ---------------------------- *)

Reverse(s) == [k \in 1..Len(s) |-> s[Len(s) + 1 - k]]

\* h = [nodeData, parent, depth, children, stack]: the nodes created so far
\* (node.data, node.parent, node.depth, node.children) and the local array
\* `nodes` of d3.hierarchy used as a stack.

HierarchyInit ==
  [nodeData |-> << 1 >>, parent |-> << Null >>, depth |-> << 0 >>,
   children |-> << << >> >>, stack |-> << 1 >>]

\* One iteration of while (node = nodes.pop()): wrap the children of the
\* popped node's object and push them, last child first.
HierarchyStep(kids, h) ==
  LET node   == Last(h.stack)
      rest   == SubSeq(h.stack, 1, Len(h.stack) - 1)
      childs == kids[h.nodeData[node]]
      n      == Len(h.nodeData)
      k      == Len(childs)
      new    == [j \in 1..k |-> n + j]
  IN  IF k > 0
      THEN [nodeData |-> h.nodeData \o childs,
            parent   |-> h.parent \o [j \in 1..k |-> node],
            depth    |-> h.depth \o [j \in 1..k |-> h.depth[node] + 1],
            children |-> [h.children EXCEPT ![node] = new]
                           \o [j \in 1..k |-> << >>],
            stack    |-> rest \o Reverse(new)]
      ELSE [h EXCEPT !.stack = rest]

RECURSIVE HierarchyLoop(_, _)
HierarchyLoop(kids, h) ==
  IF Len(h.stack) = 0 THEN h
  ELSE Bind(HierarchyStep(kids, h), LAMBDA h1 : HierarchyLoop(kids, h1))

hierarchy(tr) == HierarchyLoop(tr.kids, HierarchyInit)

(* ------------------------------- state -------------------------------- *)

VARIABLES
  phase,       \* "idle": no diagram mounted; "hierarchy": the effect is in
               \*   the loop of d3.hierarchy; "ready": the effect has run;
               \*   "blank": the effect has returned at its guard;
               \*   "call"/"return": before and after a call of splitString
  data,        \* the data prop, NoData while the page holds null
  stack,       \* d3.hierarchy's local array `nodes`
  nodeData,    \* node.data of every hierarchy node
  parent,      \* node.parent
  depth,       \* node.depth
  children,    \* node.children (<< >> when falsy)
  _children,   \* node._children (<< >> when falsy)
  id,          \* node.id (0 while undefined)
  i,           \* the counter `i` of the effect
  x, y,        \* node.x, node.y of the nodes that have been laid out
  x0, y0,      \* node.x0, node.y0 of the nodes that have them
  dom,         \* the g.node elements below g, by the node bound to each
  links,       \* the path.link elements below g, by the target node of the
               \*   link bound to each
  zoomTransform, \* svg.__zoom, the transform the zoom behaviour keeps
  gTransform,  \* the transform attribute of g
  passes,      \* layout passes whose transitions have not ended yet
  str,         \* the text splitter on its own: its argument str,
  maxPerLine,  \*   its argument maxPerLine,
  result,      \*   and the array it returned (<< >> before the call)
  messages,    \* AiSummary: the state `messages`
  input,       \* AiSummary: the state `input`
  loading,     \* AiSummary: the state `loading`
  pending,     \* the calls of generateChatResponse made by the mounted
               \*   AiSummary that have not settled: the message of each
  orphans,     \* how many calls made by an AiSummary that has been unmounted
               \*   since have not settled
  call,        \* generateChatResponse on its own: its argument, the lists
               \*   of constants.ts and the environment it runs in,
  ret          \*   and what it did and returned

vars == << phase, data, stack, nodeData, parent, depth, children, _children,
           id, i, x, y, x0, y0, dom, links, zoomTransform, gTransform, passes,
           str, maxPerLine, result, messages, input, loading, pending,
           orphans, call, ret >>

hvars == << nodeData, parent, depth >>

wvars == << str, maxPerLine, result >>

cvars == << messages, input, loading, pending, orphans >>

avars == << call, ret >>

chatvars == << cvars, avars >>

zvars == << zoomTransform, gTransform >>

Empty == [v \in {} |-> 0]

\* What update() and click() read and write: the hierarchy nodes' fields
\* (name is d.data.name), the counter, the elements and the passes in flight.
Diagram ==
  [parent |-> parent, depth |-> depth,
   name |-> [v \in 1..Len(nodeData) |-> data.name[nodeData[v]]],
   children |-> children, _children |-> _children, id |-> id, i |-> i,
   x |-> x, y |-> y, x0 |-> x0, y0 |-> y0, dom |-> dom, links |-> links,
   passes |-> passes]

(* ------------------------- the render surface ------------------------- *)

RECURSIVE MaxLineLen(_, _)
MaxLineLen(lines, k) ==
  IF k > Len(lines) THEN 0 ELSE Max(Len(lines[k]), MaxLineLen(lines, k + 1))

\* textNode.getBBox() for the tspans of a label in the 14px font: every
\* character is one em wide and every line lineHeight high; text without a
\* character has an empty box.
getBBox(lines) ==
  IF MaxLineLen(lines, 1) = 0
  THEN [width |-> 0, height |-> 0]
  ELSE [width  |-> MaxLineLen(lines, 1) * Upx(FontSize),
        height |-> Len(lines) * FontSize * lineHeightTenths * (Micro \div 10)]

\* The width without its minimum.
rectWidthNoMin(bbox) == bbox.width + Upx(paddingX)

rectWidth(bbox) == Max(Upx(MinWidth), bbox.width + Upx(paddingX))

rectHeight(bbox) == Max(Upx(MinHeight), bbox.height + Upx(paddingY))

\* A g.node element: its transform (translate(y, x)), the tspans of its text,
\* the width and height of its rect and the fill-opacity of its text, and for
\* each of the three the transition scheduled on it, if any: the pass that
\* scheduled it (0 for none; 1 is the oldest pass in flight) and its target.
NoMove == << 0, 0 >>

NoSize == << 0, 0 >>

\* nodeEnter: append g at the source's previous position, with a rect of the
\* default height and no width, and a text of fill-opacity 1e-6.
nodeEnter(S, source, v) ==
  [tr |-> << S.y0[source], S.x0[source] >>,
   lines |-> splitString(S.name[v], WrapBudget),
   rect |-> << 0, Upx(DefaultRectHeight) >>,
   opacity |-> Tiny,
   gT |-> 0, gTo |-> NoMove, gRemove |-> FALSE,
   rectT |-> 0, rectTo |-> NoSize,
   textT |-> 0, textTo |-> 0]

\* nodeUpdate: a transition of g to the node's position, the text made opaque
\* at once, and a transition of the rect to the measured box.
nodeUpdate(el, pos, pass) ==
  LET bbox == getBBox(el.lines)
  IN  [el EXCEPT !.gT = pass, !.gTo = pos, !.gRemove = FALSE,
                 !.opacity = Opaque,
                 !.rectT = pass,
                 !.rectTo = << rectWidth(bbox), rectHeight(bbox) >>]

\* An exit transition without .remove().
nodeExitStays(el, pos, pass) ==
  [el EXCEPT !.gT = pass, !.gTo = pos, !.gRemove = FALSE,
             !.rectT = pass, !.rectTo = << Tiny, Tiny >>,
             !.textT = pass, !.textTo = Tiny]

\* nodeExit: a transition of g to the source's new position that removes the
\* element at its end, with the rect shrinking and the text fading.
nodeExit(el, pos, pass) ==
  [el EXCEPT !.gT = pass, !.gTo = pos, !.gRemove = TRUE,
             !.rectT = pass, !.rectTo = << Tiny, Tiny >>,
             !.textT = pass, !.textTo = Tiny]

\* The path `d` that diagonal(s, d) draws from s to d, both << y, x >>: the
\* start, the two control points at the middle y and the end.
diagonal(s, d) ==
  [M |-> s,
   C |-> << << (s[1] + d[1]) \div 2, s[2] >>, << (s[1] + d[1]) \div 2, d[2] >> >>,
   end |-> d]

\* A path.link element: its attribute d, and the transition scheduled on it,
\* if any: the pass that scheduled it, its target and whether it removes the
\* element at its end.
NoPath == diagonal(NoMove, NoMove)

\* linkEnter: insert a path that lies in the source's previous position.
linkEnter(S, source) ==
  [d |-> diagonal(<< S.y0[source], S.x0[source] >>,
                  << S.y0[source], S.x0[source] >>),
   dT |-> 0, dTo |-> NoPath, dRemove |-> FALSE]

\* linkUpdate: a transition of d to the diagonal from parent to child.
linkUpdate(el, path, pass) ==
  [el EXCEPT !.dT = pass, !.dTo = path, !.dRemove = FALSE]

\* link.exit(): a transition of d into the source's new position that
\* removes the element at its end.
linkExit(el, pos, pass) ==
  [el EXCEPT !.dT = pass, !.dTo = diagonal(pos, pos), !.dRemove = TRUE]

\* Saving the coordinate of a node only when it has none saved.
SavedOnce(old, vis, new) ==
  [v \in (DOMAIN old) \cup vis |-> IF v \in DOMAIN old THEN old[v] ELSE new[v]]

\* nodes.forEach(d => { d.x0 = d.x; d.y0 = d.y }): the saved coordinate of
\* every node of the pass is its new one.
Saved(old, vis, new) ==
  [v \in (DOMAIN old) \cup vis |-> IF v \in vis THEN new[v] ELSE old[v]]

RECURSIVE AssignIdsAfresh(_, _, _, _)
\* A key function that numbers every datum again: d.id = ++i.
AssignIdsAfresh(K, nodes, k, stop) ==
  IF k > stop THEN K
  ELSE Bind([id |-> [K.id EXCEPT ![nodes[k]] = K.i + 1], i |-> K.i + 1],
            LAMBDA K1 : AssignIdsAfresh(K1, nodes, k + 1, stop))

RECURSIVE AssignIds(_, _, _, _)
\* The key function d.id || (d.id = ++i) over the data, in order; K is
\* [id, i].
AssignIds(K, nodes, k, stop) ==
  IF k > stop THEN K
  ELSE IF K.id[nodes[k]] # 0
       THEN AssignIds(K, nodes, k + 1, stop)
       ELSE Bind([id |-> [K.id EXCEPT ![nodes[k]] = K.i + 1], i |-> K.i + 1],
                 LAMBDA K1 : AssignIds(K1, nodes, k + 1, stop))

(* ------------------------------ update -------------------------------- *)

\* The data join and the transitions of update(source), with the layout xs,
\* the visible nodes in order and the keys K.
Join(S, source, xs, nodes, K) ==
  LET vis   == Range(nodes)
      x1    == [v \in (DOMAIN S.x) \cup vis |->
                  IF v \in vis THEN xs[v] ELSE S.x[v]]
      y1    == [v \in (DOMAIN S.y) \cup vis |->
                  IF v \in vis THEN S.depth[v] * Px(HorizontalSpacing)
                               ELSE S.y[v]]
      old   == DOMAIN S.dom
      enter == { v \in vis : ~ \E e \in old : K.id[e] = K.id[v] }
      exit  == { e \in old : ~ \E v \in vis : K.id[v] = K.id[e] }
      pass  == S.passes + 1
      dom1  == [e \in old \cup enter |->
                  IF e \in exit
                  THEN nodeExit(S.dom[e], << y1[source], x1[source] >>, pass)
                  ELSE nodeUpdate(IF e \in enter THEN nodeEnter(S, source, e)
                                                 ELSE S.dom[e],
                                  << y1[e], x1[e] >>, pass)]
      lvis   == { v \in vis : S.parent[v] # Null }
      lold   == DOMAIN S.links
      lenter == { v \in lvis : ~ \E e \in lold : K.id[e] = K.id[v] }
      lexit  == { e \in lold : ~ \E v \in lvis : K.id[v] = K.id[e] }
      links1 == [e \in lold \cup lenter |->
                   IF e \in lexit
                   THEN linkExit(S.links[e], << y1[source], x1[source] >>, pass)
                   ELSE linkUpdate(IF e \in lenter THEN linkEnter(S, source)
                                                   ELSE S.links[e],
                                   diagonal(<< y1[S.parent[e]], x1[S.parent[e]] >>,
                                            << y1[e], x1[e] >>),
                                   pass)]
  IN  [S EXCEPT !.x = x1, !.y = y1, !.id = K.id, !.i = K.i, !.dom = dom1,
                !.links = links1,
                !.x0 = Saved(S.x0, vis, x1),
                !.y0 = Saved(S.y0, vis, y1),
                !.passes = pass]

update(S, source) ==
  Bind(tree(S.children, S.parent),
    LAMBDA xs :
      Bind(descendants(S.children, root),
        LAMBDA nodes :
          Bind(AssignIds([id |-> S.id, i |-> S.i], nodes, 1, Len(nodes)),
            LAMBDA K : Join(S, source, xs, nodes, K))))

\* A fill that takes every node without live children for a collapsed one.
fillWithoutChildren(S, d) ==
  IF Len(S.children[d]) = 0 THEN "#fef3c7" ELSE "#e0f2fe"

\* The fill update() gives the rect of d: d._children ? "#fef3c7" : "#e0f2fe".
fill(S, d) ==
  IF Len(S._children[d]) > 0 THEN "#fef3c7" ELSE "#e0f2fe"

\* click that gives the parked children back in reverse order.
toggleReversed(S, d) ==
  IF Len(S.children[d]) > 0
  THEN [S EXCEPT !._children[d] = S.children[d], !.children[d] = << >>]
  ELSE [S EXCEPT !.children[d] = Reverse(S._children[d]),
                 !._children[d] = << >>]

\* click that parks the children without taking them out of d.children.
toggleKeeps(S, d) ==
  IF Len(S.children[d]) > 0
  THEN [S EXCEPT !._children[d] = S.children[d]]
  ELSE [S EXCEPT !.children[d] = S._children[d], !._children[d] = << >>]

\* click that gives back all parked children but the last.
toggleDrops(S, d) ==
  IF Len(S.children[d]) > 0
  THEN [S EXCEPT !._children[d] = S.children[d], !.children[d] = << >>]
  ELSE [S EXCEPT !.children[d] =
                   SubSeq(S._children[d], 1, Len(S._children[d]) - 1),
                 !._children[d] = << >>]

\* click that, on a collapse, also gives the children of d their parked
\* children back.
toggleCascades(S, d) ==
  IF Len(S.children[d]) > 0
  THEN [S EXCEPT
          !._children = [v \in DOMAIN @ |->
                           IF v = d THEN S.children[d]
                           ELSE IF S.parent[v] = d THEN << >> ELSE @[v]],
          !.children  = [v \in DOMAIN @ |->
                           IF v = d THEN << >>
                           ELSE IF S.parent[v] = d /\ Len(S._children[v]) > 0
                                THEN S._children[v] ELSE @[v]]]
  ELSE [S EXCEPT !.children[d] = S._children[d], !._children[d] = << >>]

toggle(S, d) ==
  IF Len(S.children[d]) > 0
  THEN [S EXCEPT !._children[d] = S.children[d], !.children[d] = << >>]
  ELSE [S EXCEPT !.children[d] = S._children[d], !._children[d] = << >>]

click(S, d) == Bind(toggle(S, d), LAMBDA S1 : update(S1, d))

\* The state in which the effect of MindMapGraph calls update(root) for the
\* hierarchy h of a tree with labels name: the document cleaned up, i = 0,
\* and the root given its previous position.
Fresh(h, name) ==
  LET n == Len(h.nodeData)
  IN  [parent |-> h.parent, depth |-> h.depth,
       name |-> [v \in 1..n |-> name[h.nodeData[v]]],
       children |-> h.children,
       _children |-> [v \in 1..n |-> << >>],
       id |-> [v \in 1..n |-> 0], i |-> 0,
       x |-> Empty, y |-> Empty,
       x0 |-> [v \in {root} |-> Px(height \div 2)],
       y0 |-> [v \in {root} |-> 0],
       dom |-> Empty, links |-> Empty, passes |-> 0]

\* The effect of MindMapGraph for a tree tr: the hierarchy and the first
\* layout.
effect(tr) ==
  Bind(hierarchy(tr),
    LAMBDA h :
      Bind(Fresh(h, tr.name), LAMBDA S0 : [h |-> h, S |-> update(S0, root)]))

\* The transitions of the oldest pass in flight end.
ended(el) ==
  [tr      |-> IF el.gT = 1 THEN el.gTo ELSE el.tr,
   lines   |-> el.lines,
   rect    |-> IF el.rectT = 1 THEN el.rectTo ELSE el.rect,
   opacity |-> IF el.textT = 1 THEN el.textTo ELSE el.opacity,
   gT      |-> Max(el.gT - 1, 0),
   gTo     |-> IF el.gT > 1 THEN el.gTo ELSE NoMove,
   gRemove |-> el.gT > 1 /\ el.gRemove,
   rectT   |-> Max(el.rectT - 1, 0),
   rectTo  |-> IF el.rectT > 1 THEN el.rectTo ELSE NoSize,
   textT   |-> Max(el.textT - 1, 0),
   textTo  |-> IF el.textT > 1 THEN el.textTo ELSE 0]

transitionsEnd(d) ==
  LET removed == { e \in DOMAIN d : d[e].gT = 1 /\ d[e].gRemove }
  IN  [e \in (DOMAIN d) \ removed |-> ended(d[e])]

linkEnded(el) ==
  [d       |-> IF el.dT = 1 THEN el.dTo ELSE el.d,
   dT      |-> Max(el.dT - 1, 0),
   dTo     |-> IF el.dT > 1 THEN el.dTo ELSE NoPath,
   dRemove |-> el.dT > 1 /\ el.dRemove]

linkTransitionsEnd(l) ==
  LET removed == { e \in DOMAIN l : l[e].dT = 1 /\ l[e].dRemove }
  IN  [e \in (DOMAIN l) \ removed |-> linkEnded(l[e])]

(* ------------------------------ viewport ------------------------------ *)

\* A transform is [k, x, y]: scale k in units of 1/ScaleUnit, translation in
\* the units of the positions.
ScaleUnit == 10 * 1000

identity == [k |-> ScaleUnit, x |-> 0, y |-> 0]

\* scaleExtent([0.1, 3]).
ScaleMin == 1000

ScaleMax == 30000

\* g.attr("transform", "translate(100,300)").
gAttr == [k |-> ScaleUnit, x |-> Px(100), y |-> Px(300)]

\* d3.zoomIdentity.translate(100, height / 2).scale(0.9).
initialTransform == [k |-> 9000, x |-> Px(100), y |-> Px(height \div 2)]

\* A scale that is not held within the extent.
clampNone(k) == k

\* The scale held within scaleExtent.
clamp(k) == Max(ScaleMin, Min(ScaleMax, k))

\* A wheel or double-click gesture at the point p = << px, py >> of the svg
\* that asks for num/den times the scale: the scale is clamped and the
\* point of the diagram under p stays under p (to 1/SubPx px).
zoomBy(t, p, num, den) ==
  LET k1 == clamp((t.k * num) \div den)
  IN  [k |-> k1,
       x |-> p[1] - ((p[1] - t.x) * k1) \div t.k,
       y |-> p[2] - ((p[2] - t.y) * k1) \div t.k]

\* A drag by << dx, dy >>: the translation follows the pointer.
panBy(t, delta) == [t EXCEPT !.x = @ + delta[1], !.y = @ + delta[2]]

(* ------------------------------ actions ------------------------------- *)

Store(S) ==
  /\ children' = S.children
  /\ _children' = S._children
  /\ id' = S.id
  /\ i' = S.i
  /\ x' = S.x
  /\ y' = S.y
  /\ x0' = S.x0
  /\ y0' = S.y0
  /\ dom' = S.dom
  /\ links' = S.links
  /\ passes' = S.passes

Idle ==
  /\ data = NoData
  /\ stack = << >>
  /\ nodeData = << >>
  /\ parent = << >>
  /\ depth = << >>
  /\ children = << >>
  /\ _children = << >>
  /\ id = << >>
  /\ i = 0
  /\ x = Empty
  /\ y = Empty
  /\ x0 = Empty
  /\ y0 = Empty
  /\ dom = Empty
  /\ links = Empty
  /\ zoomTransform = identity
  /\ gTransform = identity
  /\ passes = 0

\* generateChatResponse has not returned: it has done nothing, given the
\* model no item and has no value.
NoReturn == [did |-> << >>, items |-> 0, kind |-> "none", text |-> << >>]

\* generateChatResponse is not called.
NoAnswer ==
  /\ call = [query |-> << >>, fixed |-> << >>, db |-> << >>, key |-> FALSE,
             model |-> "text"]
  /\ ret = NoReturn

\* No AiSummary is mounted.
NoChat ==
  /\ messages = << >>
  /\ input = << >>
  /\ loading = FALSE
  /\ pending = << >>
  /\ orphans = 0

Init ==
  /\ phase = "idle"
  /\ Idle
  /\ NoChat
  /\ NoAnswer
  /\ str = << >>
  /\ maxPerLine = 1
  /\ result = << >>

\* handleGenerate has set a tree and MindMapGraph is rendered with it: the
\* effect runs.
MountOf(supplied) ==
  /\ phase = "idle"
  /\ \E tr \in supplied :
       \E E \in { effect(tr) } :
         /\ data' = tr
         /\ nodeData' = E.h.nodeData
         /\ parent' = E.h.parent
         /\ depth' = E.h.depth
         /\ stack' = E.h.stack
         /\ Store(E.S)
  /\ gTransform' = gAttr
  /\ zoomTransform' = initialTransform
  /\ phase' = "ready"
  /\ UNCHANGED << wvars, chatvars >>

Mount == MountOf(Trees)

MountLarge == MountOf(LargeTrees)

\* A click on a g.node element that is in the document, while fewer than
\* `limit` passes are in flight.
ClickWhen(limit) ==
  /\ phase = "ready"
  /\ passes < limit
  /\ \E d \in DOMAIN dom :
       \E S \in { Diagram } : \E S1 \in { click(S, d) } : Store(S1)
  /\ UNCHANGED << phase, data, stack, hvars, zvars, wvars, chatvars >>

Click == ClickWhen(MaxInFlight)

\* A click once every transition has ended.
ClickSettled == ClickWhen(1)

\* The transitions scheduled by the oldest pass in flight reach their end.
TransitionEnd ==
  /\ phase = "ready"
  /\ passes > 0
  /\ dom' = transitionsEnd(dom)
  /\ links' = linkTransitionsEnd(links)
  /\ passes' = passes - 1
  /\ UNCHANGED << phase, data, stack, hvars, children, _children, id, i,
                  x, y, x0, y0, zvars, wvars, chatvars >>

\* An unmount that leaves the elements of the diagram where they are.
UnmountLeavesSurface ==
  /\ phase = "ready"
  /\ phase' = "idle"
  /\ data' = NoData
  /\ stack' = << >>
  /\ nodeData' = << >>
  /\ parent' = << >>
  /\ depth' = << >>
  /\ children' = << >>
  /\ _children' = << >>
  /\ id' = << >>
  /\ i' = 0
  /\ x' = Empty
  /\ y' = Empty
  /\ x0' = Empty
  /\ y0' = Empty
  /\ zoomTransform' = identity
  /\ gTransform' = identity
  /\ passes' = 0
  /\ UNCHANGED << dom, links, wvars, chatvars >>

\* MindMapGraph is rendered without a tree: the effect returns at its guard,
\* before it has selected the svg, and leaves the svg without content.
MountEmpty ==
  /\ phase = "idle"
  /\ data = NoData
  /\ phase' = "blank"
  /\ UNCHANGED << data, stack, hvars, children, _children, id, i, x, y,
                  x0, y0, dom, links, zvars, passes, wvars, chatvars >>

\* handleGenerate sets the data to null: the diagram is unmounted.
Unmount ==
  /\ phase \in { "ready", "blank" }
  /\ phase' = "idle"
  /\ data' = NoData
  /\ stack' = << >>
  /\ nodeData' = << >>
  /\ parent' = << >>
  /\ depth' = << >>
  /\ children' = << >>
  /\ _children' = << >>
  /\ id' = << >>
  /\ i' = 0
  /\ x' = Empty
  /\ y' = Empty
  /\ x0' = Empty
  /\ y0' = Empty
  /\ dom' = Empty
  /\ links' = Empty
  /\ zoomTransform' = identity
  /\ gTransform' = identity
  /\ passes' = 0
  /\ UNCHANGED << wvars, chatvars >>

Next == Mount \/ Click \/ TransitionEnd \/ Unmount

Spec == Init /\ [][Next]_vars

\* The same diagram with larger trees, where the user waits for the
\* transitions to end before the next click.
NextSettled ==
  MountLarge \/ MountEmpty \/ ClickSettled \/ TransitionEnd \/ Unmount

SpecSettled == Init /\ [][NextSettled]_vars

(* ------------------------- pan and zoom gestures ----------------------- *)

\* The point of the svg a wheel gesture is made at: the one the origin of
\* the group, where the root is, is drawn at.
Pointer(t) == << t.x, t.y >>

\* The drags: right, left, down, up by PanStep px.
PanStep == 60

Drags == { << Px(PanStep), 0 >>, << 0 - Px(PanStep), 0 >>,
           << 0, Px(PanStep) >>, << 0, 0 - Px(PanStep) >> }

\* The translations followed: those within MaxPan drags of the initial one.
InReach(t) ==
  /\ t.x - initialTransform.x \in (0 - MaxPan * Px(PanStep))..(MaxPan * Px(PanStep))
  /\ t.y - initialTransform.y \in (0 - MaxPan * Px(PanStep))..(MaxPan * Px(PanStep))

\* A listener that lays the tree out again from the root on every event.
ZoomedWithLayout(t) ==
  /\ InReach(t)
  /\ zoomTransform' = t
  /\ gTransform' = t
  /\ \E S \in { Diagram } : \E S1 \in { update(S, root) } : Store(S1)
  /\ UNCHANGED << phase, data, stack, hvars, wvars, chatvars >>

\* The listener of the zoom behaviour: g.attr("transform", event.transform).
Zoomed(t) ==
  /\ InReach(t)
  /\ zoomTransform' = t
  /\ gTransform' = t
  /\ UNCHANGED << phase, data, stack, hvars, children, _children, id, i,
                  x, y, x0, y0, dom, links, passes, wvars, chatvars >>

\* A wheel turn that doubles or halves the scale; d3-zoom raises no event
\* when the clamped scale is the current one.
Wheel ==
  /\ phase = "ready"
  /\ \E f \in { << 2, 1 >>, << 1, 2 >> } :
       \E t \in { zoomBy(zoomTransform, Pointer(zoomTransform), f[1], f[2]) } :
         /\ t.k # zoomTransform.k
         /\ Zoomed(t)

\* A drag of the background.
Pan ==
  /\ phase = "ready"
  /\ \E delta \in Drags : Zoomed(panBy(zoomTransform, delta))

NextView == Mount \/ Wheel \/ Pan \/ Unmount

SpecView == Init /\ [][NextView]_vars

\* Gestures and clicks on the same diagram, the clicks once the transitions
\* of the click before have ended.
NextTouch ==
  Mount \/ Wheel \/ Pan \/ ClickSettled \/ TransitionEnd \/ Unmount

SpecTouch == Init /\ [][NextTouch]_vars

(* ----------------------- splitString on its own ------------------------ *)

dvars == << data, stack, nodeData, parent, depth, children, _children,
            id, i, x, y, x0, y0, dom, links, zoomTransform, gTransform,
            passes >>

InitWrap ==
  /\ phase = "call"
  /\ Idle
  /\ str \in { Label(len) : len \in 0..MaxLabelLen }
  /\ maxPerLine \in 1..MaxBudget
  /\ result = << >>
  /\ NoChat
  /\ NoAnswer

Split ==
  /\ phase = "call"
  /\ phase' = "return"
  /\ result' = splitString(str, maxPerLine)
  /\ UNCHANGED << str, maxPerLine, dvars, chatvars >>

SpecWrap == InitWrap /\ [][Split]_vars

(* ----------------- the effect on an arbitrary object graph ------------- *)

\* Object graphs of at most MaxObjects objects: every object's children
\* array holds any objects of the graph, so an object may be reached twice or
\* be its own descendant.
Arrays(n) == UNION { [1..len -> 1..n] : len \in 0..MaxArray }

Graphs(n) ==
  { [kids |-> k,
     name |-> [o \in 1..n |-> Label(LabelLens[(o % Len(LabelLens)) + 1])]]
    : k \in [1..n -> Arrays(n)] }

\* The effect starts on a graph and enters the loop of d3.hierarchy.
HierarchyBegin ==
  /\ phase = "idle"
  /\ \E n \in 1..MaxObjects : \E g \in Graphs(n) : data' = g
  /\ phase' = "hierarchy"
  /\ nodeData' = HierarchyInit.nodeData
  /\ parent' = HierarchyInit.parent
  /\ depth' = HierarchyInit.depth
  /\ children' = HierarchyInit.children
  /\ stack' = HierarchyInit.stack
  /\ UNCHANGED << _children, id, i, x, y, x0, y0, dom, links, zvars, passes,
                  wvars, chatvars >>

\* One iteration of the loop of d3.hierarchy.
HierarchyIterate ==
  /\ phase = "hierarchy"
  /\ Len(stack) > 0
  /\ Len(nodeData) < MaxBuilt
  /\ LET h == HierarchyStep(data.kids,
                [nodeData |-> nodeData, parent |-> parent, depth |-> depth,
                 children |-> children, stack |-> stack])
     IN  /\ nodeData' = h.nodeData
         /\ parent' = h.parent
         /\ depth' = h.depth
         /\ children' = h.children
         /\ stack' = h.stack
  /\ UNCHANGED << phase, data, _children, id, i, x, y, x0, y0, dom, links,
                  zvars, passes, wvars, chatvars >>

\* The loop has ended: the rest of the effect runs.
HierarchyEnd ==
  /\ phase = "hierarchy"
  /\ Len(stack) = 0
  /\ phase' = "ready"
  /\ \E S0 \in { Fresh([nodeData |-> nodeData, parent |-> parent,
                          depth |-> depth, children |-> children,
                          stack |-> stack], data.name) } :
       \E S1 \in { update(S0, root) } : Store(S1)
  /\ gTransform' = gAttr
  /\ zoomTransform' = initialTransform
  /\ UNCHANGED << data, stack, hvars, wvars, chatvars >>

NextGraph == HierarchyBegin \/ HierarchyIterate \/ HierarchyEnd \/ Unmount

SpecGraph == Init /\ [][NextGraph]_vars

(* ---------------------------- the chat page --------------------------- *)

\* The message AiSummary starts with.
Greeting == [role |-> "model", content |-> "greeting"]

\* The content of the message shown when generateChatResponse rejects.
Apology == "apology"

\* What the user may have typed: nothing, a space, a letter, a letter
\* between spaces.
Inputs == { << >>, << " " >>, << "a" >>, << " ", "a", " " >> }

RECURSIVE trimStart(_)
trimStart(s) ==
  IF s # << >> /\ Head(s) = " " THEN trimStart(Tail(s)) ELSE s

\* String.prototype.trim.
trim(s) == Reverse(trimStart(Reverse(trimStart(s))))

\* The submissions the mounted AiSummary has accepted.
Turns == Cardinality({ k \in 1..Len(messages) : messages[k].role = "user" })

\* The route /summary is entered: AiSummary is mounted with its initial
\* state.
EnterChat ==
  /\ phase = "idle"
  /\ phase' = "chat"
  /\ messages' = << Greeting >>
  /\ input' = << >>
  /\ loading' = FALSE
  /\ pending' = << >>
  /\ UNCHANGED << orphans, dvars, wvars, avars >>

\* Another route is entered: AiSummary is unmounted, its state is gone and
\* its call goes on.
LeaveChat ==
  /\ phase = "chat"
  /\ orphans + Len(pending) <= MaxOrphans
  /\ phase' = "idle"
  /\ messages' = << >>
  /\ input' = << >>
  /\ loading' = FALSE
  /\ pending' = << >>
  /\ orphans' = orphans + Len(pending)
  /\ UNCHANGED << dvars, wvars, avars >>

\* onChange of the input.
Type ==
  /\ phase = "chat"
  /\ input' \in Inputs \ { input }
  /\ UNCHANGED << phase, messages, loading, pending, orphans, dvars, wvars,
                  avars >>

\* handleSubmit without the test of loading.
handleSubmitUnguarded ==
  /\ phase = "chat"
  /\ IF trim(input) = << >>
     THEN UNCHANGED cvars
     ELSE /\ Turns < MaxTurns
          /\ messages' = Append(messages, [role |-> "user", content |-> input])
          /\ input' = << >>
          /\ loading' = TRUE
          /\ pending' = Append(pending, input)
          /\ UNCHANGED orphans
  /\ UNCHANGED << phase, dvars, wvars, avars >>

\* handleSubmit up to its await; React renders the new state before the
\* next event is handled.
handleSubmit ==
  /\ phase = "chat"
  /\ IF trim(input) = << >> \/ loading
     THEN UNCHANGED cvars
     ELSE /\ Turns < MaxTurns
          /\ messages' = Append(messages, [role |-> "user", content |-> input])
          /\ input' = << >>
          /\ loading' = TRUE
          /\ pending' = Append(pending, input)
          /\ UNCHANGED orphans
  /\ UNCHANGED << phase, dvars, wvars, avars >>

\* A call of the mounted AiSummary settles and handleSubmit goes on after its
\* await: the reply or, from catch, the apology; then finally.
Settle ==
  /\ phase = "chat"
  /\ \E k \in 1..Len(pending) : \E content \in { "reply", Apology } :
       /\ messages' = Append(messages, [role |-> "model", content |-> content])
       /\ pending' = SubSeq(pending, 1, k - 1) \o
                     SubSeq(pending, k + 1, Len(pending))
  /\ loading' = FALSE
  /\ UNCHANGED << phase, input, orphans, dvars, wvars, avars >>

\* A call of an AiSummary that is no longer mounted settles: the state it
\* sets is gone.
SettleOrphan ==
  /\ orphans > 0
  /\ orphans' = orphans - 1
  /\ UNCHANGED << phase, messages, input, loading, pending, dvars, wvars,
                  avars >>

NextChat ==
  EnterChat \/ Type \/ handleSubmit \/ Settle \/ SettleOrphan \/ LeaveChat

\* Every call of generateChatResponse settles.
SpecChat == Init /\ [][NextChat]_vars /\ WF_vars(Settle)

(* ------------------------- generateChatResponse ------------------------ *)

\* String.prototype.includes.
includes(s, sub) ==
  \E k \in 0..(Len(s) - Len(sub)) : SubSeq(s, k + 1, k + Len(sub)) = sub

\* findFixedAnswer: the answer of the first item of the fixed list whose
\* question includes the query or is included in it; << >> stands for null.
findFixedAnswer(fixed, query) ==
  LET hits == { k \in 1..Len(fixed) :
                  \/ includes(fixed[k].question, query)
                  \/ includes(query, fixed[k].question) }
  IN  IF hits = {} THEN << >> ELSE fixed[CHOOSE k \in hits : \A j \in hits : k <= j].answer

\* The score retrieveContext gives an item.
score(item, query) ==
  LET lower(t) == [k \in 1..Len(t) |-> IF t[k] = "A" THEN "a" ELSE t[k]]
  IN  (IF includes(item.topic, query) THEN 10 ELSE 0)
      + (IF includes(item.content, query) THEN 5 ELSE 0)
      + (IF includes(item.summary, query) THEN 3 ELSE 0)
      + (IF \E k \in 1..Len(item.keywords) :
              includes(lower(query), lower(item.keywords[k]))
         THEN 8 ELSE 0)

\* retrieveContext: the items with a positive score, the highest score
\* first and in the order of the list among equals, the first topK of them.
retrieveContext(db, query, topK) ==
  LET RECURSIVE Insert(_, _)
      Insert(sorted, k) ==
        IF sorted = << >> THEN << k >>
        ELSE IF score(db[Head(sorted)], query) >= score(db[k], query)
             THEN << Head(sorted) >> \o Insert(Tail(sorted), k)
             ELSE << k >> \o sorted
      RECURSIVE Sort(_)
      Sort(k) == IF k = 0 THEN << >> ELSE Insert(Sort(k - 1), k)
      kept == SelectSeq(Sort(Len(db)), LAMBDA k : score(db[k], query) > 0)
  IN  [k \in 1..Min(topK, Len(kept)) |-> db[kept[k]]]

\* getClient: whether it returns a client; it throws without API_KEY.
getClient(key) == key

\* generateChatResponse that makes its client before anything else.
generateChatResponseClientFirst(c) ==
  LET fixedAns == findFixedAnswer(c.fixed, c.query)
      retrievedItems == retrieveContext(c.db, c.query, 5)
  IN  IF ~ getClient(c.key)
      THEN [did |-> << "key" >>, items |-> 0, kind |-> "throw",
            text |-> << >>]
      ELSE IF fixedAns # << >>
      THEN [did |-> << "key", "fixed" >>, items |-> 0, kind |-> "fixed",
            text |-> fixedAns]
      ELSE IF Len(retrievedItems) = 0
      THEN [did |-> << "key", "fixed", "retrieve" >>, items |-> 0,
            kind |-> "not found", text |-> << >>]
      ELSE [did |-> << "key", "fixed", "retrieve", "model" >>,
            items |-> Len(retrievedItems),
            kind |-> c.model, text |-> << >>]

\* generateChatResponse for the call c: what it did in order ("fixed":
\* findFixedAnswer, "retrieve": retrieveContext, "key": getClient, "model":
\* generateContent), how many items it gave the model, and its value: the
\* fixed answer, the message that nothing was found, the text of the model,
\* the message for an empty text ("busy"), or a rejection ("throw").
generateChatResponse(c) ==
  LET fixedAns == findFixedAnswer(c.fixed, c.query)
      retrievedItems == retrieveContext(c.db, c.query, 5)
  IN  IF fixedAns # << >>
      THEN [did |-> << "fixed" >>, items |-> 0, kind |-> "fixed",
            text |-> fixedAns]
      ELSE IF Len(retrievedItems) = 0
      THEN [did |-> << "fixed", "retrieve" >>, items |-> 0,
            kind |-> "not found", text |-> << >>]
      ELSE IF ~ getClient(c.key)
      THEN [did |-> << "fixed", "retrieve", "key" >>, items |-> 0,
            kind |-> "throw", text |-> << >>]
      ELSE [did |-> << "fixed", "retrieve", "key", "model" >>,
            items |-> Len(retrievedItems),
            kind |-> IF c.model = "empty" THEN "busy" ELSE c.model,
            text |-> << >>]

\* The calls tried: four queries; no fixed question, one, or two of which
\* either may be the first to match; a knowledge list of up to MaxItems items
\* that repeats three kinds of item; API_KEY set or not; generateContent
\* returning a text, an empty text, or throwing.
Calls ==
  LET kinds == << [topic |-> << "a", "b" >>, content |-> << "b" >>,
                   summary |-> << >>, keywords |-> << << "A" >> >>],
                  [topic |-> << "b" >>, content |-> << "a", "b" >>,
                   summary |-> << "b" >>, keywords |-> << >>],
                  [topic |-> << "c" >>, content |-> << "c" >>,
                   summary |-> << "c", "a" >>, keywords |-> << << "c" >> >>] >>
      one == [question |-> << "A", "b" >>, answer |-> << "x" >>]
      two == [question |-> << "b", "a" >>, answer |-> << "y" >>]
  IN  { [query |-> q, fixed |-> f,
         db |-> [k \in 1..n |-> kinds[((k + seed) % 3) + 1]],
         key |-> key, model |-> m] :
        q \in { << "a" >>, << "b" >>, << "A", "b" >>, << "d" >> },
        f \in { << >>, << one >>, << one, two >> },
        n \in 0..MaxItems, seed \in 0..2, key \in BOOLEAN,
        m \in { "text", "empty", "throw" } }

InitAnswer ==
  /\ phase = "ask"
  /\ Idle
  /\ NoChat
  /\ str = << >>
  /\ maxPerLine = 1
  /\ result = << >>
  /\ call \in Calls
  /\ ret = NoReturn

\* The call returns or rejects.
Respond ==
  /\ phase = "ask"
  /\ phase' = "answered"
  /\ ret' = generateChatResponse(call)
  /\ UNCHANGED << call, cvars, dvars, wvars >>

SpecAnswer == InitAnswer /\ [][Respond]_vars

(* ------------------------ what the claims speak of --------------------- *)

Nodes == 1..Len(nodeData)

\* The nodes of the last layout: those reachable through live children.
VisibleIn(S) == Range(descendants(S.children, root))

Visible == Range(descendants(children, root))

\* The children d3.hierarchy gave v, from the parent pointers: a node's
\* children are numbered in the order of the children array.
OrigChildren(v) == Ascending({ u \in Nodes : parent[u] = v })

RECURSIVE Hops(_)
\* The number of parent links from v up to the root.
Hops(v) == IF parent[v] = Null THEN 0 ELSE 1 + Hops(parent[v])

RECURSIVE Ancestors(_)
Ancestors(v) ==
  IF parent[v] = Null THEN {} ELSE {parent[v]} \cup Ancestors(parent[v])

ProperDescendants(n) == { v \in Nodes : n \in Ancestors(v) }

NoneCollapsed == \A v \in Nodes : Len(_children[v]) = 0

\* The size the rect of an element has once its transition has ended.
BoxOf(el) == IF el.rectT > 0 THEN el.rectTo ELSE el.rect

\* Whether an object of the graph can be reached from itself.
RECURSIVE ReachIn(_, _, _)
ReachIn(kids, from, steps) ==
  IF steps = 0 THEN {}
  ELSE LET next == UNION { Range(kids[o]) : o \in from }
       IN  next \cup ReachIn(kids, next, steps - 1)

HasCycle(kids) ==
  \E o \in {1} \cup ReachIn(kids, {1}, Len(kids)) :
    o \in ReachIn(kids, {o}, Len(kids))

(* ------------------------------- claims ------------------------------- *)

\* C1: in a laid-out diagram in which no node is collapsed, as after the
\* initial layout, all N nodes of the supplied tree are visible, rendered and
\* positioned, each node's depth is its distance from the root, and no two
\* distinct nodes of the same depth have the same x.
C1_InitialLayout ==
  (phase = "ready" /\ NoneCollapsed) =>
    /\ Cardinality(Visible) = Len(data.kids)
    /\ Visible = DOMAIN dom
    /\ Visible = DOMAIN x /\ Visible = DOMAIN y
    /\ \A v \in Visible : depth[v] = Hops(v)
    /\ \A u, v \in Visible :
         (u # v /\ depth[u] = depth[v]) => x[u] # x[v]

\* The state right after the first layout of a tree with two nodes of the
\* same depth below different parents.
C1_Witness ==
  /\ phase = "ready" /\ NoneCollapsed
  /\ \A e \in DOMAIN dom : dom[e].gT = 1 /\ dom[e].rect = << 0, Upx(DefaultRectHeight) >>
  /\ \E u, v \in Visible : depth[u] = depth[v] /\ parent[u] # parent[v]

\* C2: for every element n whose node is expanded, clicking n twice in
\* succession leaves every node that was visible before at the same x and y,
\* heading there, and with the same box size.
C2_RoundTrip ==
  phase = "ready" =>
    \A n \in DOMAIN dom :
      Len(children[n]) > 0 =>
        \A S2 \in { click(click(Diagram, n), n) } :
          \A v \in Visible :
            /\ S2.x[v] = x[v] /\ S2.y[v] = y[v]
            /\ v \in DOMAIN S2.dom
            /\ S2.dom[v].gTo = << y[v], x[v] >> /\ ~ S2.dom[v].gRemove
            /\ BoxOf(S2.dom[v]) = BoxOf(dom[v])

\* A node was collapsed and expanded again at once: a child is back at its
\* position while the fade of its exit is still in flight, and it has a
\* sibling, so that the order of the children shows in the positions.
C2_Witness ==
  /\ phase = "ready"
  /\ \E n \in Nodes : \E v \in Range(children[n]) :
       /\ Len(children[n]) > 1
       /\ v \in DOMAIN dom
       /\ dom[v].textT = 1 /\ dom[v].gT = 2 /\ ~ dom[v].gRemove
       /\ dom[v].gTo = << y[v], x[v] >>

\* C3: a click on a visible expanded node n takes exactly the proper
\* descendants of n out of the visible set, and a second click brings back
\* exactly the set that was visible; collapsing the root leaves one node.
C3_CollapseHidesDescendants ==
  phase = "ready" =>
    \A n \in Visible :
      Len(children[n]) > 0 =>
        \A S1 \in { click(Diagram, n) } : \A S2 \in { click(S1, n) } :
          /\ VisibleIn(S1) = Visible \ ProperDescendants(n)
          /\ n \in VisibleIn(S1)
          /\ VisibleIn(S2) = Visible
          /\ (n = root => Cardinality(VisibleIn(S1)) = 1)

\* The root of a tree of three or more nodes has been collapsed: it alone is
\* visible and the others are on their way out.
C3_Witness ==
  /\ phase = "ready"
  /\ Len(nodeData) >= 3
  /\ Len(_children[root]) > 0
  /\ Visible = {root}
  /\ \E e \in DOMAIN dom : dom[e].gRemove

\* C4: no line splitString returns is longer than maxPerLine.
C4_LineWithinBudget ==
  phase = "return" =>
    \A k \in 1..Len(result) : Len(result[k]) <= maxPerLine

\* A label longer than twice the budget was split, into three lines or more,
\* one of them filling the budget.
C4_Witness ==
  /\ phase = "return"
  /\ Len(str) > 2 * maxPerLine
  /\ Len(result) >= 3
  /\ \E k \in 1..Len(result) : Len(result[k]) = maxPerLine

\* C5: for a label longer than the budget, the longest and the shortest line
\* splitString returns differ by at most one character.
C5_Balanced ==
  (phase = "return" /\ Len(str) > maxPerLine) =>
    \A j, k \in 1..Len(result) : Len(result[j]) - Len(result[k]) <= 1

\* C6: on a graph with a cycle the traversal stops (InvalidTreeError) before
\* it wraps an object below itself, and no layout is made.
C6_CycleRejected ==
  HasCycle(data.kids) =>
    /\ phase # "ready"
    /\ \A u \in Nodes : \A a \in Ancestors(u) : nodeData[a] # nodeData[u]

\* C7: children and _children of a node are never both non-empty, and
\* together they are the node's original children in their order.
C7_ChildrenConserved ==
  phase = "ready" =>
    \A v \in Nodes :
      /\ Len(children[v]) = 0 \/ Len(_children[v]) = 0
      /\ children[v] \o _children[v] = OrigChildren(v)

\* A node with two or more parked children below an expanded parent.
C7_Witness ==
  /\ phase = "ready"
  /\ \E v \in Nodes :
       /\ Len(_children[v]) >= 2
       /\ parent[v] # Null
       /\ v \in Range(children[parent[v]])

\* What a step changed in the collapse state.
ToggledByStep ==
  { v \in Nodes : children'[v] # children[v] \/ _children'[v] # _children[v] }

\* C8: the first layout leaves every node expanded; the end of a transition
\* changes no collapse state; a click changes that of one node at most, and
\* a click on n leaves children and _children of every other node as they are.
C8_OnlyActivatedNodeChanges ==
  [][ /\ (phase = "idle" /\ phase' = "ready") =>
           (NoneCollapsed /\ \A v \in Nodes : children[v] = OrigChildren(v))'
      /\ (phase = "ready" /\ phase' = "ready") =>
           /\ passes' < passes => ToggledByStep = {}
           /\ Cardinality(ToggledByStep) <= 1
           /\ \A n \in DOMAIN dom : \A S1 \in { click(Diagram, n) } :
                \A v \in Nodes \ {n} :
                  /\ S1.children[v] = children[v]
                  /\ S1._children[v] = _children[v] ]_vars

\* A collapsed node one of whose parked children is itself collapsed.
C8_Witness ==
  /\ phase = "ready"
  /\ \E n \in Nodes : \E c \in Range(_children[n]) : Len(_children[c]) > 0

\* C9: every node of the last layout has an identity, no two nodes have the
\* same, and a step of the mounted diagram never changes one that is set.
C9_IdentityStable ==
  /\ [](phase = "ready" =>
          /\ \A v \in Visible : id[v] # 0
          /\ \A u, v \in Nodes : (u # v /\ id[u] # 0) => id[u] # id[v])
  /\ [][ (phase = "ready" /\ phase' = "ready") =>
           \A v \in Nodes : id[v] # 0 => id'[v] = id[v] ]_vars

\* A tree of three or more nodes, all with identities, after a collapse and
\* while a node is parked.
C9_Witness ==
  /\ phase = "ready"
  /\ Len(nodeData) >= 3
  /\ i = Len(nodeData)
  /\ \A v \in Nodes : id[v] # 0
  /\ \E v \in Nodes : Len(_children[v]) > 0 /\ v \notin Visible

\* C10: the box of every element that is not on its way out is at least 80
\* wide and 40 high.
C10_BoxAtLeastMinimum ==
  phase = "ready" =>
    \A e \in DOMAIN dom :
      ~ dom[e].gRemove =>
        /\ BoxOf(dom[e])[1] >= Upx(MinWidth)
        /\ BoxOf(dom[e])[2] >= Upx(MinHeight)

\* The settled box of an empty label has exactly the minimum size, next to
\* the settled box of a label of three lines, wider and higher than the
\* minimum.
C10_Witness ==
  /\ phase = "ready"
  /\ \E e \in DOMAIN dom :
       /\ Len(dom[e].lines) = 1 /\ Len(dom[e].lines[1]) = 0
       /\ dom[e].rectT = 0 /\ ~ dom[e].gRemove
       /\ dom[e].rect = << Upx(MinWidth), Upx(MinHeight) >>
  /\ \E e \in DOMAIN dom :
       /\ Len(dom[e].lines) = 3
       /\ dom[e].rectT = 0 /\ ~ dom[e].gRemove
       /\ dom[e].rect[1] > Upx(MinWidth) /\ dom[e].rect[2] > Upx(MinHeight)

\* C11: the scale of the zoom behaviour's transform and of the group's
\* transform is within [0.1, 3], and a wheel turn gives the scale asked for
\* when that is within the range and the nearest end of the range otherwise.
C11_ScaleWithinExtent ==
  phase = "ready" =>
    /\ zoomTransform.k \in 1000..30000
    /\ gTransform.k \in 1000..30000
    /\ \A f \in { << 2, 1 >>, << 1, 2 >>, << 4, 1 >>, << 1, 16 >> } :
         LET asked == (zoomTransform.k * f[1]) \div f[2]
             got   == zoomBy(zoomTransform, Pointer(zoomTransform), f[1], f[2]).k
         IN  /\ asked > 30000 => got = 30000
             /\ asked < 1000 => got = 1000
             /\ asked \in 1000..30000 => got = asked

\* After a drag, wheel turns have taken the scale to the upper end of the
\* range, which no doubling of 0.9 gives.
C11_Witness ==
  /\ phase = "ready"
  /\ zoomTransform.k = ScaleMax
  /\ gTransform = zoomTransform
  /\ zoomTransform.x # initialTransform.x

\* C12: splitString of the empty string returns one line, the empty string.
C12_EmptyLabelOneLine ==
  (phase = "return" /\ Len(str) = 0) => result = << << >> >>

\* splitString has returned for the empty string, whatever the budget.
C12_Witness ==
  /\ phase = "return"
  /\ str = << >>
  /\ Len(result) = 1
  /\ maxPerLine > 1

\* The diagram as the effect leaves it: no node collapsed, the identities
\* 1..N given in this pass, one element per node and one path per node but
\* the root, all entered in this pass.
FreshDiagram ==
  /\ NoneCollapsed
  /\ \A v \in Nodes : children[v] = OrigChildren(v)
  /\ i = Len(nodeData)
  /\ { id[v] : v \in Nodes } = 1..Len(nodeData)
  /\ passes = 1
  /\ DOMAIN dom = Nodes
  /\ DOMAIN links = Nodes \ {root}
  /\ \A e \in DOMAIN dom :
       dom[e].tr = << 0, Px(300) >> /\ dom[e].gT = 1 /\ dom[e].rectT = 1
  /\ \A e \in DOMAIN links :
       links[e].d = diagonal(<< 0, Px(300) >>, << 0, Px(300) >>)

\* The nodes whose children a step parked.
CollapsedByStep ==
  { n \in Nodes : Len(children[n]) > 0 /\ Len(children'[n]) = 0 }

\* C13: taking the tree away leaves no element, no identity and no collapse
\* state of the diagram; the diagram of a supplied tree starts from nothing
\* and is fresh; and a collapse leaves children, _children, identity and
\* positions of the collapsed node's descendants as they are.
C13_NewRootDiscards ==
  [][ /\ (phase = "ready" /\ phase' = "idle") =>
           (dom = Empty /\ links = Empty /\ id = << >> /\ i = 0
              /\ _children = << >> /\ x0 = Empty /\ y0 = Empty)'
      /\ (phase = "idle" /\ phase' = "ready") =>
           (dom = Empty /\ links = Empty /\ i = 0 /\ FreshDiagram')
      /\ (phase = "ready" /\ phase' = "ready") =>
           \A n \in CollapsedByStep : \A v \in ProperDescendants(n) :
             /\ children'[v] = children[v] /\ _children'[v] = _children[v]
             /\ id'[v] = id[v]
             /\ x'[v] = x[v] /\ y'[v] = y[v]
             /\ x0'[v] = x0[v] /\ y0'[v] = y0[v] ]_vars

\* The diagram of a tree of three nodes right after its mount.
C13_Witness ==
  /\ phase = "ready"
  /\ Len(nodeData) >= 3
  /\ FreshDiagram

MeasuredBox(el) ==
  << rectWidth(getBBox(el.lines)), rectHeight(getBBox(el.lines)) >>

\* C15: once no transition is in flight, whether or not clicks arrived while
\* earlier ones were, the element of every visible node is at the node's
\* position, its rect has the measured size and its text is opaque.
C15_SettledResult ==
  (phase = "ready" /\ passes = 0) =>
    \A v \in Visible :
      /\ v \in DOMAIN dom
      /\ dom[v].tr = << y[v], x[v] >>
      /\ dom[v].rect = MeasuredBox(dom[v])
      /\ dom[v].opacity = Opaque

\* C16: once no transition is in flight, the group holds a g.node element
\* for every visible node and for no other, a path.link for every visible
\* node but the root and for no other, and the elements' identities are set
\* and differ.
C16_SurfaceMatchesVisible ==
  (phase = "ready" /\ passes = 0) =>
    /\ DOMAIN dom = Visible
    /\ DOMAIN links = Visible \ {root}
    /\ \A e \in DOMAIN dom : id[e] # 0
    /\ \A e, f \in DOMAIN dom : e # f => id[e] # id[f]
    /\ \A e \in DOMAIN links :
         links[e].d = diagonal(<< y[parent[e]], x[parent[e]] >>, << y[e], x[e] >>)

\* All transitions have ended, a node is hidden, and the text of a visible
\* node has faded: an exit was reverted while it was in flight.
C16_Witness ==
  /\ phase = "ready" /\ passes = 0
  /\ \E v \in Nodes : v \notin Visible
  /\ \E v \in Visible : v # root /\ dom[v].opacity = Tiny

RECURSIVE VisibleAncestor(_)
\* The nearest ancestor of a hidden node that is in the last layout: the
\* collapsed node the hidden node lies below.
VisibleAncestor(v) ==
  IF parent[v] \in Visible THEN parent[v] ELSE VisibleAncestor(parent[v])

\* C17: every element on its way out heads for the new position of the
\* collapsed node it lies below, and so does its link.
C17_ExitTowardCollapser ==
  phase = "ready" =>
    /\ \A e \in DOMAIN dom :
         dom[e].gRemove =>
           dom[e].gTo = << y[VisibleAncestor(e)], x[VisibleAncestor(e)] >>
    /\ \A e \in DOMAIN links :
         links[e].dRemove =>
           links[e].dTo = diagonal(<< y[VisibleAncestor(e)], x[VisibleAncestor(e)] >>,
                                   << y[VisibleAncestor(e)], x[VisibleAncestor(e)] >>)

\* C18: in the pass of a click, every entering element starts at the
\* previous position of its node's parent and heads for the node's new
\* position, and its link starts in that same point.
C18_EnterAtParent ==
  phase = "ready" =>
    \A n \in DOMAIN dom : \A S1 \in { click(Diagram, n) } :
      \A v \in (DOMAIN S1.dom) \ (DOMAIN dom) :
        /\ S1.dom[v].tr = << y0[parent[v]], x0[parent[v]] >>
        /\ S1.dom[v].gTo = << S1.y[v], S1.x[v] >>
        /\ S1.links[v].d = diagonal(<< y0[parent[v]], x0[parent[v]] >>,
                                    << y0[parent[v]], x0[parent[v]] >>)

\* C19: x0 and y0 of every node of the last layout are its x and y, and the
\* elements that enter in the pass of a click on a visible node start at
\* that node's position of this pass.
C19_PreviousIsPosition ==
  phase = "ready" =>
    /\ \A v \in Visible : x0[v] = x[v] /\ y0[v] = y[v]
    /\ \A n \in Visible : \A S1 \in { click(Diagram, n) } :
         \A v \in (DOMAIN S1.dom) \ (DOMAIN dom) :
           S1.dom[v].tr = << y[n], x[n] >>

\* Two passes are in flight, an element has not reached its node's position
\* yet, and a collapsed node is visible.
C19_Witness ==
  /\ phase = "ready" /\ passes = 2
  /\ \E v \in Visible : dom[v].tr # << y[v], x[v] >> /\ x0[v] = x[v]
  /\ \E c \in Visible : Len(_children[c]) > 0

\* C20: the transform of the group is the transform of the zoom behaviour.
C20_GroupFollowsZoom ==
  phase = "ready" => gTransform = zoomTransform

\* The leaves of the last layout, in traversal order.
VisibleLeaves ==
  SelectSeq(eachBefore(children, root), LAMBDA v : Len(children[v]) = 0)

\* C21: any two consecutive leaves of the last layout differ in x by 90.
C21_LeavesInSuccessiveSlots ==
  phase = "ready" =>
    \A k \in 1..(Len(VisibleLeaves) - 1) :
      x[VisibleLeaves[k + 1]] - x[VisibleLeaves[k]] = Px(90)

\* C22: a node of the last layout with live children has its x midway
\* between the x of its first and of its last child, so the x of an only
\* child; below a collapsed node no node is in the layout.
C22_ParentAtMidpoint ==
  phase = "ready" =>
    \A v \in Visible :
      /\ Len(children[v]) > 0 =>
           2 * x[v] = x[children[v][1]] + x[Last(children[v])]
      /\ Len(children[v]) = 1 => x[v] = x[children[v][1]]
      /\ Len(children[v]) = 0 => ProperDescendants(v) \cap Visible = {}

\* A node with one child, a node with two children of which one is
\* collapsed, all in one layout.
C22_Witness ==
  /\ phase = "ready"
  /\ \E v \in Visible : Len(children[v]) = 1
  /\ \E v \in Visible :
       /\ Len(children[v]) >= 2
       /\ x[v] # x[children[v][1]]
       /\ \E c \in Range(children[v]) : Len(_children[c]) > 0

\* C23: of two siblings of the last layout, the one that comes first in the
\* children the hierarchy gave their parent has the smaller x, by 90 at
\* least.
C23_SiblingOrderKept ==
  phase = "ready" =>
    \A p \in Visible :
      \A j, k \in 1..Len(OrigChildren(p)) :
        (j < k /\ OrigChildren(p)[j] \in Visible /\ OrigChildren(p)[k] \in Visible) =>
          x[OrigChildren(p)[k]] - x[OrigChildren(p)[j]] >= Px(90)

\* After a collapse: siblings more than 90 apart, in a layout with a
\* collapsed node below the root.
C23_Witness ==
  /\ phase = "ready"
  /\ \E p \in Visible : \E k \in 1..(Len(children[p]) - 1) :
       x[children[p][k + 1]] - x[children[p][k]] > Px(90)
  /\ \E c \in Visible : Len(_children[c]) > 0 /\ c # root

\* C24: for a label of L characters and a budget b < L, splitString returns
\* k = ceil(L / b) lines; each of the first k - 1 has c = ceil(L / k)
\* characters and the last has between 1 and c.
C24_LineCountAndLengths ==
  (phase = "return" /\ Len(str) > maxPerLine) =>
    \E k \in { Ceil(Len(str), maxPerLine) } :
      \E c \in { Ceil(Len(str), k) } :
        /\ Len(result) = k
        /\ \A j \in 1..(k - 1) : Len(result[j]) = c
        /\ Len(result[k]) \in 1..c

\* Four lines or more, the last one shorter than the others by two
\* characters or more.
C24_Witness ==
  /\ phase = "return"
  /\ Len(str) > maxPerLine
  /\ Len(result) >= 4
  /\ Len(Last(result)) + 2 <= Len(result[1])

RECURSIVE Concat(_)
\* The lines of a sequence joined, in their order.
Concat(lines) ==
  IF lines = << >> THEN << >> ELSE Head(lines) \o Concat(Tail(lines))

\* C27: the lines splitString returns, joined in their order, are the label;
\* none of them is empty unless the label is.
C27_LinesJoinToLabel ==
  phase = "return" =>
    /\ Concat(result) = str
    /\ Len(str) > 0 => \A k \in 1..Len(result) : Len(result[k]) > 0

\* A label cut into three lines or more whose last line is a single
\* character.
C27_Witness ==
  /\ phase = "return"
  /\ Len(result) >= 3
  /\ Len(Last(result)) = 1
  /\ Concat(result) = str

\* C25: without a tree, with a tree of one node and for a node with an empty
\* label the diagram is made without error: without a tree and with one node
\* it is one box of 80 by 40 and no edge, and the box of an empty label is
\* 80 by 40 unless its element is on its way out.
C25_EdgeCasesGiveOneBox ==
  /\ phase = "blank" =>
       /\ \E e \in DOMAIN dom :
            /\ DOMAIN dom = { e }
            /\ BoxOf(dom[e]) = << Upx(MinWidth), Upx(MinHeight) >>
       /\ DOMAIN links = {}
  /\ (phase = "ready" /\ Len(nodeData) = 1) =>
       /\ DOMAIN dom = { root }
       /\ BoxOf(dom[root]) = << Upx(MinWidth), Upx(MinHeight) >>
       /\ DOMAIN links = {}
  /\ phase = "ready" =>
       \A e \in DOMAIN dom :
         (dom[e].lines = << << >> >> /\ ~ dom[e].gRemove) =>
           BoxOf(dom[e]) = << Upx(MinWidth), Upx(MinHeight) >>

\* C26: a step that changes the transform of the zoom behaviour or of the
\* group leaves the hierarchy, the collapsed children, the identities, the
\* positions, the elements with their boxes, the paths and the passes in
\* flight as they are; a step that changes any of these in a mounted diagram
\* leaves both transforms as they are.
C26_ViewportApartFromLayout ==
  [][ (phase = "ready" /\ phase' = "ready") =>
        /\ zvars' # zvars =>
             UNCHANGED << hvars, children, _children, id, i, x, y, x0, y0,
                          dom, links, passes >>
        /\ << children, _children, id, i, x, y, x0, y0, dom, links,
              passes >>' #
           << children, _children, id, i, x, y, x0, y0, dom, links, passes >>
             => UNCHANGED zvars ]_vars

\* A diagram zoomed and dragged away from its first view, with a node
\* collapsed by a click whose transitions are in flight.
C26_Witness ==
  /\ phase = "ready"
  /\ zoomTransform.k # initialTransform.k
  /\ zoomTransform.x # initialTransform.x
  /\ gTransform = zoomTransform
  /\ passes = 1
  /\ \E v \in Nodes : Len(_children[v]) > 0

\* C28: a click on the element of a node without children and without
\* collapsed children, once or twice, leaves the children and the collapsed
\* children of every node, the nodes of the layout, their positions, where
\* their elements head, their boxes and the fill of the node as they are, and
\* the fill is not the one of a collapsed node.
C28_LeafClickChangesNothing ==
  phase = "ready" =>
    \A d \in DOMAIN dom :
      (Len(children[d]) = 0 /\ Len(_children[d]) = 0) =>
        \A S1 \in { click(Diagram, d) } :
          \A S2 \in { S1, click(S1, d) } :
            /\ S2.children = children
            /\ S2._children = _children
            /\ VisibleIn(S2) = Visible
            /\ \A v \in Visible :
                 /\ S2.x[v] = x[v] /\ S2.y[v] = y[v]
                 /\ v \in DOMAIN S2.dom
                 /\ S2.dom[v].gTo = << y[v], x[v] >> /\ ~ S2.dom[v].gRemove
                 /\ BoxOf(S2.dom[v]) = BoxOf(dom[v])
            /\ fill(S2, d) = fill(Diagram, d)
            /\ fill(S2, d) # "#fef3c7"

\* The pass of a click on a leaf is in flight: every element is that of a
\* node of the layout and already where it heads, next to a collapsed node.
C28_Witness ==
  /\ phase = "ready"
  /\ passes = 1
  /\ DOMAIN dom = Visible
  /\ \A v \in Visible : dom[v].gT = 1 /\ dom[v].tr = << y[v], x[v] >>
  /\ \E v \in Visible : Len(_children[v]) > 0
  /\ \E v \in Visible : Len(children[v]) = 0 /\ Len(_children[v]) = 0

\* The messages are the greeting and then a user message and a model
\* message in turn; the last one is a user message exactly while a call is
\* unsettled.
Dialogue ==
  /\ messages[1] = Greeting
  /\ \A k \in 2..Len(messages) :
       messages[k].role = IF k % 2 = 0 THEN "user" ELSE "model"
  /\ Len(messages) % 2 = 0 <=> pending # << >>

\* C29: at any time one call of generateChatResponse at most is unsettled;
\* on the chat page loading is true exactly while a call is unsettled, and
\* every user message is followed by one model message once its call has
\* settled.
C29_OneRequestAtATime ==
  /\ Len(pending) + orphans <= 1
  /\ phase = "chat" => (loading <=> pending # << >>) /\ Dialogue

\* C29 for one mounted AiSummary: of its calls one at most is unsettled;
\* loading is true exactly while one is; a step adds a call only from a
\* non-blank input while none is unsettled, and appends the input as a user
\* message; a step that settles a call appends one model message, the reply
\* or the apology; no other step changes the messages; loading does not stay
\* true for ever.
C29_OneRequestPerVisit ==
  /\ [](phase = "chat" =>
          /\ Len(pending) <= 1
          /\ loading <=> pending # << >>
          /\ Dialogue)
  /\ [][ (phase = "chat" /\ phase' = "chat") =>
           /\ Len(pending') > Len(pending) =>
                /\ trim(input) # << >> /\ ~ loading /\ pending = << >>
                /\ messages' =
                     Append(messages, [role |-> "user", content |-> input])
                /\ loading'
           /\ Len(pending') < Len(pending) =>
                /\ Len(messages') = Len(messages) + 1
                /\ SubSeq(messages', 1, Len(messages)) = messages
                /\ Last(messages').role = "model"
                /\ Last(messages').content \in { "reply", Apology }
                /\ ~ loading'
           /\ Len(pending') = Len(pending) => messages' = messages ]_vars
  /\ (phase = "chat" /\ loading) ~> ~ loading

\* The second call of a visit is unsettled, the first one was answered with
\* the apology, and a call of an earlier visit is unsettled too.
C29_Witness ==
  /\ phase = "chat"
  /\ loading
  /\ Len(pending) = 1
  /\ Len(messages) = 4
  /\ messages[3].content = Apology
  /\ orphans = 1

\* C30: generateChatResponse calls findFixedAnswer first and retrieveContext
\* second. When a fixed question includes the query or is included in it, the
\* value is the answer of the first such question; when none does and no
\* item of the knowledge list has a positive score, the value is the message
\* that nothing was found; in both cases neither getClient nor the model is
\* called. The model is called with one to five items only.
C30_FixedThenRetrievalThenModel ==
  phase = "answered" =>
    LET hits  == { k \in 1..Len(call.fixed) :
                     \/ includes(call.fixed[k].question, call.query)
                     \/ includes(call.query, call.fixed[k].question) }
        found == { k \in 1..Len(call.db) : score(call.db[k], call.query) > 0 }
    IN  /\ ret.did[1] = "fixed"
        /\ Len(ret.did) >= 2 => ret.did[2] = "retrieve"
        /\ hits # {} =>
             /\ ret.kind = "fixed"
             /\ ret.text = call.fixed[CHOOSE k \in hits : \A j \in hits : k <= j].answer
             /\ ret.did = << "fixed" >>
        /\ (hits = {} /\ found = {}) =>
             /\ ret.kind = "not found"
             /\ ret.did = << "fixed", "retrieve" >>
        /\ "model" \in Range(ret.did) =>
             /\ ret.items \in 1..5
             /\ ret.items = Min(5, Cardinality(found))
             /\ hits = {}

\* Without API_KEY, a query that a fixed question includes was answered
\* with the fixed answer although six items of the knowledge list or more
\* have a positive score for it.
C30_Witness ==
  /\ phase = "answered"
  /\ ~ call.key
  /\ ret.kind = "fixed"
  /\ Cardinality({ k \in 1..Len(call.db) :
                     score(call.db[k], call.query) > 0 }) >= 6

=============================================================================
